---------------------------- MODULE Spec2Model ----------------------------
(***************************************************************************)
(* Model of src/retirement_app.py: the glide path (get_equity_allocation), *)
(* the loan payment (calculate_annual_emi), the year loop of               *)
(* retirement_calculator and the glide path preview of the script.         *)
(*                                                                         *)
(* Numbers.  Python computes in binary floating point; the model computes  *)
(* the same expressions in exact rational arithmetic, a number being the   *)
(* record [n |-> numerator, d |-> denominator] in lowest terms with d > 0. *)
(* The one value that is no rational is the result of a division by zero,  *)
(* written NaN == [n |-> 0, d |-> 0]: numpy yields nan for 0.0/0.0 (the    *)
(* principal reaching calculate_annual_emi is a numpy float because `age`  *)
(* comes from np.arange), and every comparison with nan is False.          *)
(* TLC integers are 32-bit, so the inputs are drawn from values whose      *)
(* exact results fit.                                                      *)
(***************************************************************************)
EXTENDS Integers, Sequences, FiniteSets, TLC

VARIABLES
    \* parameters of retirement_calculator (lines 28-34)
    current_age, retirement_age, life_expectancy,
    current_savings, monthly_contribution,
    equity_return, fixed_income_return,
    annual_ret_expenses, exp_inflation_rate,
    annual_contrib_increase, one_time_expenses,
    home_loan, strategy, custom_start, custom_end, custom_age,
    \* locals of retirement_calculator
    pc, years, i, balance, contrib, emi_amount, data,
    growth, contribution, expense,
    \* the glide path preview of the script (lines 130-131)
    preview_allocs

params == << current_age, retirement_age, life_expectancy,
             current_savings, monthly_contribution,
             equity_return, fixed_income_return,
             annual_ret_expenses, exp_inflation_rate,
             annual_contrib_increase, one_time_expenses,
             home_loan, strategy, custom_start, custom_end, custom_age >>

locals == << pc, years, i, balance, contrib, emi_amount, data,
             growth, contribution, expense >>

vars == << params, locals, preview_allocs >>

---------------------------------------------------------------------------
(* Exact arithmetic *)

Abs(x) == IF x < 0 THEN -x ELSE x

RECURSIVE GCD(_, _)
GCD(a, b) == IF b = 0 THEN a ELSE GCD(b, a % b)

NaN == [n |-> 0, d |-> 0]

IsNaN(x) == x.d = 0

\* n/d in lowest terms, d > 0; anything over zero is NaN
Frac(n, d) ==
    IF d = 0 THEN NaN
    ELSE LET g == GCD(Abs(n), Abs(d))
             s == IF d < 0 THEN -1 ELSE 1
         IN  [n |-> s * (n \div g), d |-> s * (d \div g)]

Num(k) == [n |-> k, d |-> 1]

Zero == Num(0)

One == Num(1)

RAdd(a, b) ==
    IF IsNaN(a) \/ IsNaN(b) THEN NaN
    ELSE LET g == GCD(a.d, b.d)
         IN  Frac(a.n * (b.d \div g) + b.n * (a.d \div g), (a.d \div g) * b.d)

RNeg(a) == [n |-> -a.n, d |-> a.d]

RSub(a, b) == RAdd(a, RNeg(b))

\* cancels across before multiplying, so that no intermediate product is
\* larger than the result
RMul(a, b) ==
    IF IsNaN(a) \/ IsNaN(b) THEN NaN
    ELSE LET g1 == GCD(Abs(a.n), b.d)
             g2 == GCD(Abs(b.n), a.d)
         IN  [n |-> (a.n \div g1) * (b.n \div g2),
              d |-> (a.d \div g2) * (b.d \div g1)]

RDiv(a, b) ==
    IF IsNaN(a) \/ IsNaN(b) \/ b.n = 0 THEN NaN
    ELSE RMul(a, IF b.n < 0 THEN [n |-> -b.d, d |-> -b.n]
                            ELSE [n |-> b.d, d |-> b.n])

\* a ** k for an integer k >= 0
RECURSIVE RPow(_, _)
RPow(a, k) ==
    IF k <= 0 THEN One
    ELSE LET h == RPow(a, k \div 2)
             sq == RMul(h, h)
         IN  IF k % 2 = 0 THEN sq ELSE RMul(a, sq)

\* comparisons; False whenever an operand is NaN
RLt(a, b) == ~IsNaN(a) /\ ~IsNaN(b) /\ RSub(a, b).n < 0

RLe(a, b) == ~IsNaN(a) /\ ~IsNaN(b) /\ RSub(a, b).n <= 0

---------------------------------------------------------------------------
(* Program constants *)

CRORE == 10000000

MonthsPerYear == 12

PreviewFirstAge == 25

PreviewStartAge == 27

(* Bounds of the model *)

\* the largest life_expectancy - current_age
MaxYears == 4

\* the preview runs over range(PreviewFirstAge, MaxPreviewAge); 91 in the source
MaxPreviewAge == 33

---------------------------------------------------------------------------
(* get_equity_allocation, lines 7-20 *)

\* the strategy ignored: the caller's pair whatever the strategy
StrategyPctsIgnored(strat, start_pct, end_pct) == << start_pct, end_pct >>

\* lines 8-13: the pair a named strategy stands for; Custom keeps the caller's
StrategyPcts(strat, start_pct, end_pct) ==
    CASE strat = "Aggressive"   -> << Frac(9, 10), Frac(3, 10) >>
      [] strat = "Balanced"     -> << Frac(17, 20), Frac(1, 5) >>
      [] strat = "Conservative" -> << Frac(7, 10), Frac(1, 5) >>
      [] OTHER                  -> << start_pct, end_pct >>

\* the clamp at end_age left out
GlideUnclamped(age, start_age, end_age, start_pct, end_pct) ==
    IF age <= start_age THEN start_pct
    ELSE RSub(start_pct,
              RMul(RDiv(Num(age - start_age), Num(end_age - start_age)),
                   RSub(start_pct, end_pct)))

\* lines 15-20
Glide(age, start_age, end_age, start_pct, end_pct) ==
    IF age <= start_age THEN start_pct
    ELSE IF age >= end_age THEN end_pct
    ELSE RSub(start_pct,
              RMul(RDiv(Num(age - start_age), Num(end_age - start_age)),
                   RSub(start_pct, end_pct)))

get_equity_allocation(age, strat, start_age, end_age, start_pct, end_pct) ==
    LET p == StrategyPcts(strat, start_pct, end_pct)
    IN  Glide(age, start_age, end_age, p[1], p[2])

(* calculate_annual_emi, lines 22-26.  The quotient on line 25 is taken    *)
(* before the product with the principal: the rationals are the same, and  *)
(* the intermediate principal * (1 + r)^months is not formed.              *)
calculate_annual_emi(principal, annual_rate, yrs) ==
    LET monthly_rate == RDiv(annual_rate, Num(MonthsPerYear))
        months == yrs * MonthsPerYear
        pw == RPow(RAdd(One, monthly_rate), months)
        emi == RMul(principal, RDiv(RMul(monthly_rate, pw), RSub(pw, One)))
    IN  RMul(emi, Num(MonthsPerYear))

---------------------------------------------------------------------------
(* retirement_calculator, lines 28-91 *)

\* the last year left out
YearsOfExclusive(cur, life) == life - cur

\* line 35
YearsOf(cur, life) == life - cur + 1

\* line 36: ages[k] of np.arange(current_age, current_age + years), k from 0
AgeAt(k) == current_age + k

\* the two returns weighted the wrong way round
AnnualReturnSwapped(equity_allocation) ==
    RAdd(RMul(equity_allocation, fixed_income_return),
         RMul(RSub(One, equity_allocation), equity_return))

\* fixed_allocation taken as equity_allocation - 1
AnnualReturnSignSlip(equity_allocation) ==
    RAdd(RMul(equity_allocation, equity_return),
         RMul(RSub(equity_allocation, One), fixed_income_return))

\* lines 45-46
AnnualReturn(equity_allocation) ==
    RAdd(RMul(equity_allocation, equity_return),
         RMul(RSub(One, equity_allocation), fixed_income_return))

\* line 53
Working(age) == age < retirement_age

\* lines 52-55: this year's contribution
ContributionOf(age, c) == IF Working(age) THEN c ELSE Zero

\* line 56: the running contribution after this year
NextContrib(age, c) ==
    IF Working(age) THEN RMul(c, RAdd(One, annual_contrib_increase)) ELSE c

\* the factor (1 + exp_inflation_rate) ** (age - current_age) of lines 62, 68, 76
Inflation(age) == RPow(RAdd(One, exp_inflation_rate), age - current_age)

\* the expense inflated from the retirement age on
RetirementExpenseSinceRetirement(age) ==
    IF age >= retirement_age
    THEN RMul(Num(annual_ret_expenses),
              RPow(RAdd(One, exp_inflation_rate), age - retirement_age))
    ELSE Zero

\* lines 59-62: the ongoing retirement expense of the year
RetirementExpense(age) ==
    IF age >= retirement_age
    THEN RMul(Num(annual_ret_expenses), Inflation(age))
    ELSE Zero

\* an entry applied in every year from its age on
MatchesFrom(age, exp_age) == age >= exp_age

\* line 67
Matches(age, exp_age) == age = exp_age

\* lines 66-70: the loop over one_time_expenses, st = [balance, expense]
RECURSIVE OneTimeLoop(_, _, _)
OneTimeLoop(entries, age, st) ==
    IF entries = << >> THEN st
    ELSE LET exp_age == Head(entries)[1]
             amount == Head(entries)[2]
             inflated_amount == RMul(Num(amount), Inflation(age))
         IN  OneTimeLoop(Tail(entries), age,
                 IF Matches(age, exp_age)
                 THEN [balance |-> RSub(st.balance, inflated_amount),
                       expense |-> RAdd(st.expense, inflated_amount)]
                 ELSE st)

\* line 73: `if home_loan:`; None is modelled as the empty tuple
HasLoan == home_loan # << >>

\* the payment computed again in every year from the start age on
EmiDueEachYear(age, emi_start_age, emi) == age >= emi_start_age

\* line 75: the payment is computed at the start age, while still unset
EmiDue(age, emi_start_age, emi) == age = emi_start_age /\ RLt(emi, Zero)

\* lines 74-77: emi_amount after the first `if`
EmiAfter(age, emi) ==
    IF HasLoan /\ EmiDue(age, home_loan[1], emi)
    THEN calculate_annual_emi(RMul(Num(home_loan[2]), Inflation(age)),
                              home_loan[4], home_loan[3])
    ELSE emi

\* line 78
LoanActive(age, emi_start_age, emi_years, emi) ==
    emi_start_age <= age /\ age < emi_start_age + emi_years /\ RLt(Zero, emi)

\* lines 78-80: the payment of the year
LoanPayment(age, emi) ==
    IF HasLoan /\ LoanActive(age, home_loan[1], home_loan[3], emi)
    THEN emi ELSE Zero

\* lines 82-89: amounts are stored in crores, the allocation in percent
Record(age, bal, contr, exp, gr, equity_allocation) ==
    [Age |-> age,
     NetWorth |-> RDiv(bal, Num(CRORE)),
     Contribution |-> RDiv(contr, Num(CRORE)),
     Expense |-> RDiv(exp, Num(CRORE)),
     Return |-> RDiv(gr, Num(CRORE)),
     EquityPct |-> RMul(equity_allocation, Num(100))]

\* lines 35-41
Enter ==
    /\ pc = "call"
    /\ years' = YearsOf(current_age, life_expectancy)
    /\ i' = 0
    /\ data' = << >>
    /\ balance' = Num(current_savings)
    /\ contrib' = Num(monthly_contribution * MonthsPerYear)
    /\ emi_amount' = Num(-1)
    /\ pc' = "loop"
    /\ UNCHANGED << params, growth, contribution, expense, preview_allocs >>

\* lines 43-89: one pass of the loop body
Iterate ==
    /\ pc = "loop"
    /\ i < years
    /\ LET age == AgeAt(i)
           equity_allocation ==
               get_equity_allocation(age, strategy, current_age, custom_age,
                                     custom_start, custom_end)
           annual_return == AnnualReturn(equity_allocation)
           gr == RMul(balance, annual_return)
           b1 == RAdd(balance, gr)
           contr == ContributionOf(age, contrib)
           b2 == RAdd(b1, contr)
           ret == RetirementExpense(age)
           b3 == RSub(b2, ret)
           st == OneTimeLoop(one_time_expenses, age,
                             [balance |-> b3, expense |-> ret])
           emi == EmiAfter(age, emi_amount)
           pay == LoanPayment(age, emi)
           b5 == RSub(st.balance, pay)
           e5 == RAdd(st.expense, pay)
       IN  /\ growth' = gr
           /\ contribution' = contr
           /\ contrib' = NextContrib(age, contrib)
           /\ emi_amount' = emi
           /\ balance' = b5
           /\ expense' = e5
           /\ data' = Append(data, Record(age, b5, contr, e5, gr, equity_allocation))
    /\ i' = i + 1
    /\ UNCHANGED << params, pc, years, preview_allocs >>

\* line 91
Return ==
    /\ pc = "loop"
    /\ i >= years
    /\ pc' = "done"
    /\ UNCHANGED << params, years, i, balance, contrib, emi_amount, data,
                    growth, contribution, expense, preview_allocs >>

\* lines 130-131: the next element of preview_allocs
PreviewStep ==
    /\ pc = "preview"
    /\ PreviewFirstAge + Len(preview_allocs) < MaxPreviewAge
    /\ preview_allocs' =
           Append(preview_allocs,
                  get_equity_allocation(PreviewFirstAge + Len(preview_allocs),
                                        strategy, PreviewStartAge, custom_age,
                                        custom_start, custom_end))
    /\ UNCHANGED << params, locals >>

---------------------------------------------------------------------------
(* Inputs *)

Strategies == {"Aggressive", "Balanced", "Conservative", "Custom"}

\* None
NoLoan == << >>

CurrentAges == {59, 60}

\* (strategy, custom_start, custom_end, custom_age) as lines 122-128 set them:
\* a named strategy comes with 0.85, 0.2, 60; Custom with the three sliders
GlideInputs ==
    {<< s, Frac(17, 20), Frac(1, 5), 60 >> : s \in {"Aggressive", "Balanced"}}
    \cup {<< "Custom", One, Zero, a >> : a \in {40, 62}}

\* (equity_return, fixed_income_return)
ReturnPairs ==
    {<< Frac(1, 10), Frac(1, 10) >>, << Frac(11, 10), Frac(1, 10) >>, << Zero, Zero >>}

Savings == {0, CRORE}

\* (monthly_contribution, annual_contrib_increase)
ContribPairs == {<< 0, Zero >>, << 100000, Frac(1, 10) >>}

\* (annual_ret_expenses, exp_inflation_rate)
ExpensePairs == {<< 0, Zero >>, << 1000000, Frac(1, 10) >>}

\* lists of (age, amount): none; one entry; a repeated age and an age that no
\* simulated year has
OneTimeLists ==
    {<< >>,
     << << 61, 100000 >> >>,
     << << 61, 100000 >>, << 35, 200000 >>, << 61, 300000 >> >>}

\* (start age, principal, term in years, annual rate)
HomeLoans ==
    {NoLoan, << 61, 1200000, 10, Zero >>}
    \cup {<< s, 853125, 1, Num(12) >> : s \in {60, 61}}
    \cup {<< s, 5592405, 2, Num(12) >> : s \in {60, 61}}

\* The two-year payment, 2^26, has no factor 5: it is paired with whole-number
\* flows only, so that the balance stays within TLC's integers.
Fits ==
    (home_loan # NoLoan /\ home_loan[3] = 2)
        => /\ equity_return = Zero /\ fixed_income_return = Zero
           /\ exp_inflation_rate = Zero

Idle ==
    /\ years = 0
    /\ i = 0
    /\ balance = Zero
    /\ contrib = Zero
    /\ emi_amount = Zero
    /\ data = << >>
    /\ growth = Zero
    /\ contribution = Zero
    /\ expense = Zero
    /\ preview_allocs = << >>

\* a call of retirement_calculator (line 169), before its first statement
Init ==
    /\ current_age \in CurrentAges
    /\ retirement_age \in {current_age + k : k \in 0..2}
    /\ life_expectancy \in {current_age + k : k \in (MaxYears - 2)..MaxYears}
    /\ current_savings \in Savings
    /\ \E c \in ContribPairs :
           monthly_contribution = c[1] /\ annual_contrib_increase = c[2]
    /\ \E r \in ReturnPairs :
           equity_return = r[1] /\ fixed_income_return = r[2]
    /\ \E e \in ExpensePairs :
           annual_ret_expenses = e[1] /\ exp_inflation_rate = e[2]
    /\ one_time_expenses \in OneTimeLists
    /\ home_loan \in HomeLoans
    /\ \E g \in GlideInputs :
           /\ strategy = g[1]
           /\ custom_start = g[2]
           /\ custom_end = g[3]
           /\ custom_age = g[4]
    /\ Fits
    /\ pc = "call"
    /\ Idle

Next == Enter \/ Iterate \/ Return

Spec == Init /\ [][Next]_vars

\* (custom_start, custom_end) given to get_equity_allocation
PctPairs ==
    {<< Frac(17, 20), Frac(1, 5) >>, << One, Zero >>, << Frac(1, 5), Frac(1, 2) >>}

\* end_age given to get_equity_allocation, on both sides of PreviewStartAge
GlideEndAges == {25, 27, 28, 30, 31}

\* the preview (lines 130-131), for any strategy, pair and end age
InitPreview ==
    /\ strategy \in Strategies
    /\ \E p \in PctPairs : custom_start = p[1] /\ custom_end = p[2]
    /\ custom_age \in GlideEndAges
    /\ current_age = PreviewStartAge
    /\ retirement_age = PreviewStartAge
    /\ life_expectancy = PreviewStartAge
    /\ current_savings = 0
    /\ monthly_contribution = 0
    /\ annual_contrib_increase = Zero
    /\ equity_return = Zero
    /\ fixed_income_return = Zero
    /\ annual_ret_expenses = 0
    /\ exp_inflation_rate = Zero
    /\ one_time_expenses = << >>
    /\ home_loan = NoLoan
    /\ pc = "preview"
    /\ Idle

NextPreview == PreviewStep

SpecPreview == InitPreview /\ [][NextPreview]_vars

---------------------------------------------------------------------------
(* What the statements below are written in *)

Valid == current_age < retirement_age /\ retirement_age < life_expectancy

Entered == pc \in {"loop", "done"}

\* the age of the year the loop body ran last (for i >= 1)
LastAge == current_age + i - 1

\* the balance before the k-th year, in rupees
BalanceBefore(k) ==
    IF k = 1 THEN Num(current_savings)
    ELSE RMul(data[k - 1].NetWorth, Num(CRORE))

\* (1 + expenseInflationRate)^(a - currentAge)
InflatedBy(a) == RPow(RAdd(One, exp_inflation_rate), a - current_age)

\* the ongoing retirement expense of age a
OngoingAt(a) ==
    IF a >= retirement_age THEN RMul(Num(annual_ret_expenses), InflatedBy(a))
    ELSE Zero

\* the sum of the inflated amounts of the entries k..Len with age a
RECURSIVE OneTimeFrom(_, _)
OneTimeFrom(k, a) ==
    IF k > Len(one_time_expenses) THEN Zero
    ELSE RAdd(IF one_time_expenses[k][1] = a
              THEN RMul(Num(one_time_expenses[k][2]), InflatedBy(a))
              ELSE Zero,
              OneTimeFrom(k + 1, a))

OneTimeAt(a) == OneTimeFrom(1, a)

\* the loan payment the code deducts at age a, given the emi_amount it holds
LoanPaidAt(a) ==
    IF /\ HasLoan
       /\ home_loan[1] <= a
       /\ a < home_loan[1] + home_loan[3]
       /\ RLt(Zero, emi_amount)
    THEN emi_amount ELSE Zero

\* the payment of a loan, from the principal inflated to the loan's start age
EmiAtStart ==
    calculate_annual_emi(RMul(Num(home_loan[2]), InflatedBy(home_loan[1])),
                         home_loan[4], home_loan[3])

\* allocation * equityReturn + (1 - allocation) * fixedIncomeReturn at age a
BlendedAt(a) ==
    LET al == get_equity_allocation(a, strategy, current_age, custom_age,
                                    custom_start, custom_end)
    IN  RAdd(RMul(al, equity_return), RMul(RSub(One, al), fixed_income_return))

InCrores(x) == RDiv(x, Num(CRORE))

---------------------------------------------------------------------------
(* C1: for currentAge < retirementAge < lifeExpectancy the records are one *)
(* per age, ascending from currentAge with step 1, and on return there are *)
(* lifeExpectancy - currentAge + 1 of them, the last at lifeExpectancy.    *)
C1_OneRecordPerAge ==
    Valid =>
        /\ \A k \in 1..Len(data) : data[k].Age = current_age + k - 1
        /\ Len(data) <= life_expectancy - current_age + 1
        /\ pc = "done" =>
               /\ Len(data) = life_expectancy - current_age + 1
               /\ data[1].Age = current_age
               /\ data[Len(data)].Age = life_expectancy

C1_Witness == Valid /\ pc = "done" /\ Len(data) >= 4

(* C2: a loan with rate > 0 and currentAge <= startAge <= lifeExpectancy   *)
(* has its payment computed once, in the year of startAge, from the        *)
(* principal inflated to that age; the same payment is taken from the      *)
(* balance and added to the expense in each year of                        *)
(* [startAge, startAge + termYears), and nothing in any other year.        *)
C2_Covered ==
    /\ HasLoan
    /\ RLt(Zero, home_loan[4])
    /\ current_age <= home_loan[1]
    /\ home_loan[1] <= life_expectancy

C2_LoanFixedOnce ==
    (C2_Covered /\ Entered) =>
        /\ emi_amount = IF LastAge >= home_loan[1] THEN EmiAtStart ELSE Num(-1)
        /\ i >= 1 =>
               LET a == LastAge
                   due == IF home_loan[1] <= a /\ a < home_loan[1] + home_loan[3]
                          THEN EmiAtStart ELSE Zero
               IN  /\ expense = RAdd(RAdd(OngoingAt(a), OneTimeAt(a)), due)
                   /\ balance = RSub(RAdd(RAdd(BalanceBefore(i), growth),
                                          contribution),
                                     expense)

C2_Witness ==
    /\ C2_Covered
    /\ pc = "done"
    /\ home_loan[3] = 2
    /\ current_age < home_loan[1]
    /\ home_loan[1] + home_loan[3] <= life_expectancy
    /\ RLt(Zero, exp_inflation_rate) \/ RLt(Zero, Num(monthly_contribution))

(* C3: with startAge < endAge, get_equity_allocation returns the resolved  *)
(* startPct at ages <= startAge, the resolved endPct at ages >= endAge,    *)
(* and never more at a later age than at an earlier one when               *)
(* startPct >= endPct; the resolved pair is (0.90, 0.30) for Aggressive,   *)
(* (0.85, 0.20) for Balanced, (0.70, 0.20) for Conservative and the        *)
(* caller's pair for Custom.                                               *)
ResolvedStart ==
    CASE strategy = "Aggressive"   -> Frac(90, 100)
      [] strategy = "Balanced"     -> Frac(85, 100)
      [] strategy = "Conservative" -> Frac(70, 100)
      [] strategy = "Custom"       -> custom_start

ResolvedEnd ==
    CASE strategy = "Aggressive"   -> Frac(30, 100)
      [] strategy = "Balanced"     -> Frac(20, 100)
      [] strategy = "Conservative" -> Frac(20, 100)
      [] strategy = "Custom"       -> custom_end

\* the age of the k-th element of preview_allocs
PreviewAge(k) == PreviewFirstAge + k - 1

C3_GlideClampedMonotone ==
    (pc = "preview" /\ PreviewStartAge < custom_age) =>
        \A k \in 1..Len(preview_allocs) :
            /\ PreviewAge(k) <= PreviewStartAge
                   => preview_allocs[k] = ResolvedStart
            /\ PreviewAge(k) >= custom_age
                   => preview_allocs[k] = ResolvedEnd
            /\ RLe(ResolvedEnd, ResolvedStart) =>
                   \A j \in 1..k : RLe(preview_allocs[k], preview_allocs[j])

C3_Witness ==
    /\ pc = "preview"
    /\ custom_age = 30
    /\ strategy = "Conservative"
    /\ Len(preview_allocs) >= 7

(* C4: a loan with annualRate = 0 is paid at principal / years (1200000    *)
(* over 10 years: 120000), with no division by zero.                       *)
C4_ZeroRatePayment ==
    (Entered /\ HasLoan /\ home_loan[4] = Zero /\ LastAge >= home_loan[1]) =>
        emi_amount = RDiv(RMul(Num(home_loan[2]), InflatedBy(home_loan[1])),
                          Num(home_loan[3]))

(* C5: an input that violates currentAge < retirementAge < lifeExpectancy  *)
(* is rejected before the year loop: no record is ever emitted for it.     *)
C5_InvalidRejected == ~Valid => data = << >>

(* C6: every one-time entry (a, amount) is inflated by                     *)
(* (1 + expenseInflationRate)^(a - currentAge), taken from the balance and *)
(* added to the expense of the year of age a, entries of one age adding    *)
(* up and entries of no simulated age changing nothing; the record holds   *)
(* amounts in crores, so with zero inflation a single entry (a, 100000)    *)
(* and no other expense in that year the expense field is 100000 / 1e7.    *)
C6_SingleEntryCase(k) ==
    /\ exp_inflation_rate = Zero
    /\ Len(one_time_expenses) = 1
    /\ one_time_expenses[1] = << data[k].Age, 100000 >>
    /\ OngoingAt(data[k].Age) = Zero
    /\ ~HasLoan

C6_OneTimeApplied ==
    /\ \A k \in 1..Len(data) :
           /\ RMul(data[k].Expense, Num(CRORE)) =
                  RAdd(RAdd(OngoingAt(data[k].Age), LoanPaidAt(data[k].Age)),
                       OneTimeAt(data[k].Age))
           /\ C6_SingleEntryCase(k) => data[k].Expense = Frac(100000, CRORE)
    /\ (Entered /\ i >= 1) =>
           /\ expense = RAdd(RAdd(OngoingAt(LastAge), LoanPaidAt(LastAge)),
                             OneTimeAt(LastAge))
           /\ balance = RSub(RAdd(RAdd(BalanceBefore(i), growth), contribution),
                             expense)

\* the statement as made: the field equals 100000
C6_FieldInRupees ==
    \A k \in 1..Len(data) :
        C6_SingleEntryCase(k) => data[k].Expense = Num(100000)

C6_Witness ==
    /\ pc = "done"
    /\ Len(one_time_expenses) = 3
    /\ RLt(Zero, exp_inflation_rate)
    /\ \E k \in 1..Len(data) :
           /\ data[k].Age = 61
           /\ data[k].Age > current_age
           /\ RLt(Zero, OneTimeAt(61))

(* C7: for a valid input with positive currentSavings, zero retirement    *)
(* expense, no one-time expense, no loan, zero monthly contribution and a  *)
(* positive blended return at every simulated age, each record's net worth *)
(* is strictly greater than the one before, and the first record's is      *)
(* strictly greater than currentSavings / 1e7 (the records are in crores). *)
C7_NoFlows ==
    /\ Valid
    /\ current_savings >= 0
    /\ annual_ret_expenses = 0
    /\ one_time_expenses = << >>
    /\ ~HasLoan
    /\ monthly_contribution = 0
    /\ \A a \in current_age..life_expectancy : RLt(Zero, BlendedAt(a))

C7_NetWorthGrows ==
    (C7_NoFlows /\ current_savings > 0) =>
        \A k \in 1..Len(data) :
            IF k = 1 THEN RLt(InCrores(Num(current_savings)), data[1].NetWorth)
            ELSE RLt(data[k - 1].NetWorth, data[k].NetWorth)

\* the statement as made: any currentSavings >= 0, the first record against
\* currentSavings itself
C7_GrowsFromSavings ==
    C7_NoFlows =>
        \A k \in 1..Len(data) :
            IF k = 1 THEN RLt(Num(current_savings), data[1].NetWorth)
            ELSE RLt(data[k - 1].NetWorth, data[k].NetWorth)

C7_Witness ==
    /\ C7_NoFlows
    /\ current_savings > 0
    /\ pc = "done"
    /\ equity_return # fixed_income_return
    /\ Len(data) >= 4

(* C8: in a year of age a < retirementAge the contribution added is        *)
(* monthlyContribution * 12 * (1 + annualContributionGrowthRate)^(a -      *)
(* currentAge) and no ongoing expense is charged; in a year of age a >=    *)
(* retirementAge the contribution is 0, the running contribution amount    *)
(* stays what it was, and the ongoing expense charged is                   *)
(* annualRetirementExpense * (1 + expenseInflationRate)^(a - currentAge).  *)
\* monthlyContribution * 12 * (1 + annualContributionGrowthRate)^n
ContributionGrown(n) ==
    RMul(Num(monthly_contribution * 12),
         RPow(RAdd(One, annual_contrib_increase), n))

\* the years before retirement among the first n simulated years
WorkingYears(n) ==
    IF retirement_age - current_age < 0 THEN 0
    ELSE IF retirement_age - current_age < n THEN retirement_age - current_age
    ELSE n

\* the ongoing part of the year's expense: what is left of it without the
\* one-time entries and the loan payment
OngoingCharged == RSub(RSub(expense, OneTimeAt(LastAge)), LoanPaidAt(LastAge))

C8_ContributionAndExpensePhases ==
    (Entered /\ i >= 1) =>
        /\ LastAge < retirement_age =>
               /\ contribution = ContributionGrown(LastAge - current_age)
               /\ OngoingCharged = Zero
        /\ LastAge >= retirement_age =>
               /\ contribution = Zero
               /\ contrib = ContributionGrown(WorkingYears(i))
               /\ OngoingCharged =
                      RMul(Num(annual_ret_expenses),
                           RPow(RAdd(One, exp_inflation_rate), LastAge - current_age))
        /\ data[i].Contribution = InCrores(contribution)

C8_Witness ==
    /\ pc = "done"
    /\ Valid
    /\ retirement_age = current_age + 2
    /\ life_expectancy >= retirement_age + 2
    /\ monthly_contribution > 0
    /\ annual_ret_expenses > 0
    /\ HasLoan

(* C9: each record's net worth is the one before (currentSavings / 1e7,    *)
(* in crores as the records are, before the first) plus the year's         *)
(* investment return and contribution minus its expense; the investment    *)
(* return is the net worth before times the blended return of the year's   *)
(* age, and the expense is the sum of the year's ongoing expense, one-time *)
(* expenses and loan payment: nothing of a later year enters a record.     *)
NetWorthBefore(k, first) == IF k = 1 THEN first ELSE data[k - 1].NetWorth

Recurrence(first) ==
    \A k \in 1..Len(data) :
        /\ data[k].Return =
               RMul(NetWorthBefore(k, first), BlendedAt(data[k].Age))
        /\ data[k].Expense =
               InCrores(RAdd(RAdd(OngoingAt(data[k].Age), OneTimeAt(data[k].Age)),
                             LoanPaidAt(data[k].Age)))
        /\ data[k].NetWorth =
               RSub(RAdd(RAdd(NetWorthBefore(k, first), data[k].Return),
                         data[k].Contribution),
                    data[k].Expense)

C9_YearRecurrence == Recurrence(InCrores(Num(current_savings)))

\* the statement as made: the net worth before the first record is
\* currentSavings
C9_RecurrenceFromSavings == Recurrence(Num(current_savings))

C9_Witness ==
    /\ pc = "done"
    /\ Valid
    /\ current_savings > 0
    /\ monthly_contribution > 0
    /\ annual_ret_expenses > 0
    /\ equity_return # fixed_income_return
    /\ Len(one_time_expenses) = 3
    /\ HasLoan
    /\ RLt(Zero, emi_amount)
    /\ Len(data) >= 4

(* C10: get_equity_allocation never divides by zero; when startAge >=      *)
(* endAge it returns startPct at ages <= startAge and endPct at every      *)
(* other age; its result always lies between endPct and startPct.          *)
C10_GlideTotal ==
    pc = "preview" =>
        \A k \in 1..Len(preview_allocs) :
            /\ ~IsNaN(preview_allocs[k])
            /\ PreviewStartAge >= custom_age =>
                   preview_allocs[k] = IF PreviewAge(k) <= PreviewStartAge
                                       THEN ResolvedStart ELSE ResolvedEnd
            /\ \/ /\ RLe(ResolvedEnd, preview_allocs[k])
                  /\ RLe(preview_allocs[k], ResolvedStart)
               \/ /\ RLe(ResolvedStart, preview_allocs[k])
                  /\ RLe(preview_allocs[k], ResolvedEnd)

C10_Witness ==
    /\ pc = "preview"
    /\ custom_age = PreviewStartAge
    /\ strategy = "Custom"
    /\ Len(preview_allocs) >= 5

=============================================================================
